---- MODULE Spec2Model ----
(***************************************************************************)
(* The reconnecting callbacks WebSocket of crates/websocket (cb::WebSocket, *)
(* cb::core::WebSocketCore, cb::builder::WebSocketBuilder and               *)
(* common::ReconnectConfig).                                                *)
(*                                                                          *)
(* Durations are whole milliseconds.  The multiplier is held in tenths and  *)
(* the randomization factor in hundredths, so 1.5 is 15 and 0.5 is 50.      *)
(* A web_sys::WebSocket is a record of the sequence `sockets`; its index is *)
(* its identity, and `ws` is the index held by the shared cell              *)
(* Rc<RefCell<web_sys::WebSocket>>.                                         *)
(***************************************************************************)
EXTENDS Integers, Sequences, FiniteSets, TLC

VARIABLES builder, is_closing, reconnect, cb_store, ws, sockets, timers,
          nTimers, nb, last, dropped, close_requests

vars == <<builder, is_closing, reconnect, cb_store, ws, sockets, timers,
          nTimers, nb, last, dropped, close_requests>>

----------------------------------------------------------------------------
(* Bounds of the exploration. *)

\* web_sys::WebSocket instances constructed over the life of one client.
MaxSockets == 3

\* setTimeout calls made over the life of one client.
MaxTimers == 4

\* close_with_code calls made on the sockets over the life of one client.
MaxCloses == 2

----------------------------------------------------------------------------
(* Program constants. *)

\* ExponentialBackoff::default(): initial_interval of 500 ms.
InitialInterval == 500

\* ExponentialBackoff::default(): randomization_factor 0.5, in hundredths.
DefaultRandomization == 50

\* ReconnectConfig::default(): multiplier 1.5, in tenths.
DefaultMultiplier == 15

\* ReconnectConfig::default(): max_interval of 60 s.
DefaultMaxInterval == 60000

\* Largest value of an i32.
I32Max == 2147483647

\* The random draw of the backoff is rnd / RndDen, rnd in 0 .. RndDen.
RndDen == 2

Kinds == {"message", "open", "error", "close"}

ReadyStates == {"Connecting", "Open", "Closing", "Closed"}

Min(a, b) == IF a <= b THEN a ELSE b

----------------------------------------------------------------------------
(* common.rs: ReconnectConfig over backoff::ExponentialBackoff. *)

\* ReconnectConfig::default(): not reconnecting, default backoff, no closure.
DefaultReconnectConfig ==
    [is_reconnecting      |-> FALSE,
     randomization_factor |-> DefaultRandomization,
     multiplier           |-> DefaultMultiplier,
     max_interval         |-> DefaultMaxInterval,
     initial_interval     |-> InitialInterval,
     current_interval     |-> InitialInterval,
     retry_closure        |-> 0]

\* ReconnectConfig::new_custom: the default with three fields overwritten.
new_custom(randomization_factor, multiplier, max_interval) ==
    [DefaultReconnectConfig EXCEPT
        !.randomization_factor = randomization_factor,
        !.multiplier           = multiplier,
        !.max_interval         = max_interval]

\* BackoffPolicy: the delay drawn from [cur*(1-r), cur*(1+r)].
RandomizedInterval(rf, rnd, cur) ==
    LET delta == (rf * cur) \div 100
    IN  (cur - delta) + (rnd * (2 * delta)) \div RndDen

\* BackoffPolicy: new_interval = min(current_interval * m, max_interval).
IncrementCurrentInterval(cfg) ==
    Min((cfg.current_interval * cfg.multiplier) \div 10, cfg.max_interval)

\* ExponentialBackoff::next_backoff: the delay, then the interval advances.
BackoffNext(cfg, rnd) ==
    [delay |-> RandomizedInterval(cfg.randomization_factor, rnd,
                                  cfg.current_interval),
     cfg   |-> [cfg EXCEPT !.current_interval = IncrementCurrentInterval(cfg)]]

\* ExponentialBackoff::reset: the interval returns to its initial value.
BackoffReset(cfg) == [cfg EXCEPT !.current_interval = cfg.initial_interval]

\* ReconnectConfig::is_reconnecting.
is_reconnecting(cfg) == cfg.is_reconnecting

\* A next_backoff that restarts the backoff before it draws the delay.
next_backoff_Resets(cfg, rnd) == BackoffNext(BackoffReset(cfg), rnd)

\* ReconnectConfig::next_backoff: delegates to the backoff, nothing else.
next_backoff(cfg, rnd) == BackoffNext(cfg, rnd)

\* A reset that clears the flag but leaves the backoff where it was.
reset_FlagOnly(cfg) == [cfg EXCEPT !.is_reconnecting = FALSE]

\* ReconnectConfig::reset: clears the flag and resets the backoff.
reset(cfg) == BackoffReset([cfg EXCEPT !.is_reconnecting = FALSE])

\* A set_retry_cb that drops the closure instead of storing it.
set_retry_cb_Dropped(cfg, cb) == [cfg EXCEPT !.retry_closure = 0]

\* ReconnectConfig::set_retry_cb: the stored closure is replaced.
set_retry_cb(cfg, cb) == [cfg EXCEPT !.retry_closure = cb]

\* Duration::as_secs: whole seconds, the sub-second part is discarded.
as_secs(d) == d \div 1000

\* `as i32` of a u64: the low 32 bits, read as a two's-complement number.
as_i32(x) ==
    IF x <= I32Max
      THEN x
      ELSE LET low == x % (2 * (I32Max + 1))
           IN  IF low <= I32Max THEN low ELSE low - 2 * (I32Max + 1)

\* The timeout argument built at the two call sites of schedule_reconnect.
TimeoutArg(d) == as_i32(as_secs(d))

----------------------------------------------------------------------------
(* cb/core.rs: the adapters and the sockets they are installed on. *)

\* build_onmessage: Some only when the user gave a message handler.
build_onmessage(b) == b.onmessage

\* build_onopen: None only without an open handler and without reconnect.
build_onopen(b) == b.onopen \/ b.reconnect

\* build_onerror: Some only when the user gave an error handler.
build_onerror(b) == b.onerror

\* build_onclose: None only without a close handler and without reconnect.
build_onclose(b) == b.onclose \/ b.reconnect

\* The four set_on* calls of init_new_websocket: the handler of each kind.
Adapters(b) ==
    [message |-> build_onmessage(b), open  |-> build_onopen(b),
     error   |-> build_onerror(b),   close |-> build_onclose(b)]

NoProtocols == [some |-> FALSE, list |-> <<>>]

\* The fold of build_new_websocket: each protocol pushed onto a new Array.
RECURSIVE js_protos(_, _)
js_protos(acc, protos) ==
    IF protos = <<>> THEN acc
    ELSE js_protos(Append(acc, Head(protos)), Tail(protos))

\* A construction that always takes the branch without protocols.
build_new_websocket_NoProtocols(url, protocols) ==
    [state |-> "Connecting",
     on    |-> [message |-> FALSE, open |-> FALSE,
                error |-> FALSE, close |-> FALSE],
     url   |-> url,
     protocols |-> NoProtocols]

\* build_new_websocket: a fresh socket for the url and the protocols,
\* connecting, with no handler set.
build_new_websocket(url, protocols) ==
    [state |-> "Connecting",
     on    |-> [message |-> FALSE, open |-> FALSE,
                error |-> FALSE, close |-> FALSE],
     url   |-> url,
     protocols |-> IF protocols.some
                     THEN [some |-> TRUE,
                           list |-> js_protos(<<>>, protocols.list)]
                     ELSE NoProtocols]

\* Handlers registered on the first socket instead of the one in the cell.
InstallOn_First(socks, h, b) == [socks EXCEPT ![1].on = Adapters(b)]

\* init_new_websocket, first half: handlers registered on socket h.
InstallOn(socks, h, b) == [socks EXCEPT ![h].on = Adapters(b)]

\* A store that is never cleared: it keeps the closures of the first socket.
StoreFor_Stale(h, b) ==
    [gen   |-> 1,
     slots |-> <<build_onmessage(b), build_onopen(b),
                 build_onerror(b), build_onclose(b)>>]

\* init_new_websocket, second half: the store is cleared, then refilled.
StoreFor(h, b) ==
    [gen   |-> h,
     slots |-> <<build_onmessage(b), build_onopen(b),
                 build_onerror(b), build_onclose(b)>>]

\* web_sys::WebSocket::ready_state: the numeric readyState of a socket.
ready_state_code(state) ==
    CASE state = "Connecting" -> 0
      [] state = "Open"       -> 1
      [] state = "Closing"    -> 2
      [] state = "Closed"     -> 3

\* From<u16> for ReadyState.
ReadyState_from(n) ==
    CASE n = 0 -> "Connecting"
      [] n = 1 -> "Open"
      [] n = 2 -> "Closing"
      [] n = 3 -> "Closed"
      [] OTHER -> "Other"

\* A status read from the socket the client was built with.
ready_state_Cached == ReadyState_from(ready_state_code(sockets[1].state))

\* WebSocket::ready_state: read live from the socket the cell holds.
ready_state == ReadyState_from(ready_state_code(sockets[ws].state))

\* An adapter of socket h runs only while its closure is still stored.
AdapterLive(h, kind) == sockets[h].on[kind] /\ cb_store.gen = h

\* schedule_reconnect: one more pending timeout.  `window` is whether
\* web_sys::window() is Some and setTimeout returns Ok; otherwise one of the
\* two unwraps panics and nothing is scheduled.
schedule_reconnect(ts, id, timeout, delay, window) ==
    IF window
      THEN ts \cup {[id |-> id, timeout |-> timeout, delay |-> delay]}
      ELSE ts

\* An onclose adapter that does not look at is_closing.
OnCloseReconnects_IgnoresFlag(b, closing) == b.reconnect

\* An onclose adapter that does not look at the reconnect option.
OnCloseReconnects_Always(b, closing) == ~closing

\* The onclose adapter reconnects unless closing or not configured to.
OnCloseReconnects(b, closing) == ~closing /\ b.reconnect

\* An onerror adapter that starts a reconnect as the onclose adapter does.
OnErrorReconnects_LikeClose(b, closing) == ~closing /\ b.reconnect

\* The onerror adapter has no reconnect path.
OnErrorReconnects(b, closing) == FALSE

\* A retry closure that never looks at is_closing.
RetrySuppressed_Never(closing) == FALSE

\* The retry closure returns at once when the user has closed.
RetrySuppressed(closing) == closing

\* A retry closure whose Err branch is also taken after a success.
RetryReschedules_Always(built) == TRUE

\* The retry closure schedules another retry only when construction failed.
RetryReschedules(built) == ~built

\* What a user callback can observe of the reconnect state when it runs.
Snapshot(ts, cfg) ==
    [pending  |-> Cardinality(ts),
     interval |-> cfg.current_interval,
     active   |-> is_reconnecting(cfg)]

NoSnapshot == [pending |-> 0, interval |-> 0, active |-> FALSE]

\* An onopen adapter that calls the user's handler before the reset.
OnOpenSees_Before(before, after) == before

\* The onopen adapter resets the reconnect config, then calls the handler.
OnOpenSees(before, after) == after

\* An onclose adapter that calls the user's handler before scheduling.
OnCloseSees_Before(before, after) == before

\* The onclose adapter schedules the retry, then calls the handler.
OnCloseSees(before, after) == after

\* send_with_str / send_with_u8_array of the platform socket: an error only
\* while the socket is connecting; on a closing or closed socket the data is
\* discarded and the call returns Ok.
transport_send(state) == state # "Connecting"

Messages == {"Text", "Binary"}

\* The data of a MessageEvent: a JS string or an ArrayBuffer, as code units
\* or bytes.
EventData ==
    {[js |-> "JsString",    val |-> <<97, 98>>],
     [js |-> "ArrayBuffer", val |-> <<0, 255>>]}

NoData == [js |-> "None", val |-> <<>>]

NoMessage == [tag |-> "None", val |-> <<>>]

\* An onmessage adapter that hands every payload over as binary.
WsMessage_of_AlwaysBinary(data) ==
    [tag |-> "Binary", val |-> [i \in 1..Len(data.val) |-> data.val[i]]]

\* The onmessage adapter: a JS string becomes WsMessage::Text, anything
\* else is an ArrayBuffer copied byte by byte into WsMessage::Binary.
WsMessage_of(data) ==
    IF data.js = "JsString"
      THEN [tag |-> "Text", val |-> data.val]
      ELSE [tag |-> "Binary",
            val |-> [i \in 1..Len(data.val) |-> data.val[i]]]

----------------------------------------------------------------------------
(* The configurations a builder can be finished with. *)

BackoffConfigs ==
    {DefaultReconnectConfig}
    \cup {new_custom(rf, m, mx) :
            rf \in {0, 50}, m \in {5, 10, 20}, mx \in {100, 2000}}
    \cup {new_custom(100, 0, 0)}

\* The most calls of next_backoff a user makes on a config before handing
\* it to WebSocketBuilder::reconnect.
MaxPre == 1

\* A config on which the user called the public next_backoff k times.
RECURSIVE PreAdvanced(_, _)
PreAdvanced(cfg, k) ==
    IF k = 0 THEN cfg ELSE PreAdvanced(next_backoff(cfg, 0).cfg, k - 1)

Urls == {"ws://a", "ws://b"}

ProtocolOptions == {NoProtocols, [some |-> TRUE, list |-> <<"p1", "p2">>]}

Builders ==
    [onmessage : BOOLEAN, onopen : BOOLEAN, onerror : BOOLEAN,
     onclose : BOOLEAN, reconnect : BOOLEAN,
     url : Urls, protocols : ProtocolOptions]

NoStep == [panicked |-> FALSE, data |-> NoData, msg |-> NoMessage,
           op |-> "build", h |-> 1, cb |-> "none", stale |-> FALSE,
           ok |-> TRUE, scheduled |-> FALSE, seen |-> NoSnapshot]

\* WebSocketBuilder::build then WebSocketCore::new, construction succeeded.
Built ==
    /\ is_closing = FALSE
    /\ ws = 1
    /\ sockets = InstallOn(<<build_new_websocket(builder.url,
                                                 builder.protocols)>>,
                           1, builder)
    /\ cb_store = StoreFor(1, builder)
    /\ timers = {}
    /\ nTimers = 0
    /\ last = NoStep
    /\ dropped = FALSE
    /\ close_requests = 0

\* A client for one endpoint, with any handlers and any reconnect config,
\* which the user may have advanced before the build.
Init ==
    /\ builder \in Builders
    /\ builder.url = "ws://a"
    /\ builder.protocols = NoProtocols
    /\ \E k \in 0..MaxPre :
          /\ nb = k
          /\ \E cfg \in BackoffConfigs :
                /\ k > 0 => (builder.reconnect /\ cfg = DefaultReconnectConfig)
                /\ reconnect = PreAdvanced(cfg, k)
    /\ (~builder.reconnect => reconnect = DefaultReconnectConfig)
    /\ Built

\* A client for any endpoint, with all handlers and the default reconnect.
EndpointInit ==
    /\ builder \in Builders
    /\ builder.onmessage /\ builder.onopen /\ builder.onerror
    /\ builder.onclose /\ builder.reconnect
    /\ reconnect = DefaultReconnectConfig
    /\ nb = 0
    /\ Built

----------------------------------------------------------------------------
(* The steps of the event loop. *)

Live(h) == h \in DOMAIN sockets /\ sockets[h].state # "Closed"

\* Lines 161-171 and 198-209 of cb/core.rs: next_backoff, build the retry
\* closure, schedule_reconnect with the truncated seconds, set_retry_cb.
\* A panic of schedule_reconnect unwinds out of the closure: the backoff
\* has advanced, the new retry closure is dropped and not stored.
ScheduleRetry(pending, rnd, window) ==
    LET r == next_backoff(reconnect, rnd)
    IN  /\ nTimers < MaxTimers
        /\ timers' = schedule_reconnect(pending, nTimers + 1,
                                        TimeoutArg(r.delay), r.delay, window)
        /\ reconnect' = IF window THEN set_retry_cb(r.cfg, nTimers + 1)
                                  ELSE r.cfg
        /\ nTimers' = IF window THEN nTimers + 1 ELSE nTimers
        /\ nb' = nb + 1

NoRetry(pending) ==
    /\ timers' = pending
    /\ UNCHANGED <<reconnect, nTimers, nb>>

\* The socket of index h delivers `open`: the closure of build_onopen.
NotifyOpen(h) ==
    /\ h \in DOMAIN sockets
    /\ sockets[h].state = "Connecting"
    /\ sockets' = [sockets EXCEPT ![h].state = "Open"]
    /\ IF AdapterLive(h, "open") /\ builder.reconnect
         THEN reconnect' = reset(reconnect) /\ nb' = 0
         ELSE UNCHANGED <<reconnect, nb>>
    /\ last' = [panicked |-> FALSE,
                data |-> NoData, msg |-> NoMessage, op |-> "open", h |-> h,
                cb |-> IF AdapterLive(h, "open") /\ builder.onopen
                         THEN "open" ELSE "none",
                stale |-> sockets[h].on.open /\ ~AdapterLive(h, "open"),
                ok |-> TRUE, scheduled |-> FALSE,
                seen |-> IF AdapterLive(h, "open") /\ builder.onopen
                           THEN OnOpenSees(Snapshot(timers, reconnect),
                                           Snapshot(timers, reconnect'))
                           ELSE NoSnapshot]
    /\ UNCHANGED <<builder, is_closing, cb_store, ws, timers, nTimers,
                   dropped, close_requests>>

\* The socket of index h delivers `message`: the closure of build_onmessage.
NotifyMessage(h, data) ==
    /\ h \in DOMAIN sockets
    /\ sockets[h].state \in {"Open", "Closing"}
    /\ last' = [panicked |-> FALSE, data |-> data,
                msg |-> IF AdapterLive(h, "message")
                          THEN WsMessage_of(data) ELSE NoMessage,
                op |-> "message", h |-> h,
                cb |-> IF AdapterLive(h, "message") THEN "message" ELSE "none",
                stale |-> sockets[h].on.message /\ ~AdapterLive(h, "message"),
                ok |-> TRUE, scheduled |-> FALSE,
                seen |-> IF AdapterLive(h, "message")
                           THEN Snapshot(timers, reconnect) ELSE NoSnapshot]
    /\ UNCHANGED <<builder, is_closing, reconnect, cb_store, ws, sockets,
                   timers, nTimers, nb, dropped, close_requests>>

\* The socket of index h delivers `error`: the closure of build_onerror.
NotifyError(h, rnd) ==
    /\ Live(h)
    /\ IF AdapterLive(h, "error") /\ OnErrorReconnects(builder, is_closing)
         THEN ScheduleRetry(timers, rnd, TRUE)
         ELSE NoRetry(timers)
    /\ last' = [panicked |-> FALSE,
                data |-> NoData, msg |-> NoMessage, op |-> "error", h |-> h,
                cb |-> IF AdapterLive(h, "error") THEN "error" ELSE "none",
                stale |-> sockets[h].on.error /\ ~AdapterLive(h, "error"),
                ok |-> TRUE,
                scheduled |-> AdapterLive(h, "error")
                              /\ OnErrorReconnects(builder, is_closing),
                seen |-> IF AdapterLive(h, "error")
                           THEN Snapshot(timers, reconnect) ELSE NoSnapshot]
    /\ UNCHANGED <<builder, is_closing, cb_store, ws, sockets, dropped,
                   close_requests>>

\* The socket of index h delivers `close`: the closure of build_onclose.
NotifyClosed(h, rnd, window) ==
    /\ Live(h)
    /\ sockets' = [sockets EXCEPT ![h].state = "Closed"]
    /\ IF AdapterLive(h, "close") /\ OnCloseReconnects(builder, is_closing)
         THEN ScheduleRetry(timers, rnd, window)
         ELSE NoRetry(timers)
    /\ last' = [panicked |-> AdapterLive(h, "close") /\ ~window
                             /\ OnCloseReconnects(builder, is_closing),
                data |-> NoData, msg |-> NoMessage, op |-> "closed", h |-> h,
                cb |-> IF AdapterLive(h, "close") /\ builder.onclose
                          /\ (OnCloseReconnects(builder, is_closing)
                                => window)
                         THEN "close" ELSE "none",
                stale |-> sockets[h].on.close /\ ~AdapterLive(h, "close"),
                ok |-> TRUE,
                scheduled |-> AdapterLive(h, "close") /\ window
                              /\ OnCloseReconnects(builder, is_closing),
                seen |-> IF AdapterLive(h, "close") /\ builder.onclose
                            /\ (OnCloseReconnects(builder, is_closing)
                                  => window)
                           THEN OnCloseSees(Snapshot(timers, reconnect),
                                            Snapshot(timers', reconnect'))
                           ELSE NoSnapshot]
    /\ UNCHANGED <<builder, is_closing, cb_store, ws, dropped,
                   close_requests>>

\* A close that sets the flag only after the socket accepted the close.
close_FlagOnSuccess(valid) ==
    /\ ~dropped
    /\ close_requests < MaxCloses
    /\ is_closing' = (is_closing \/ valid)
    /\ close_requests' = close_requests + 1
    /\ sockets' = IF valid /\ sockets[ws].state \in {"Connecting", "Open"}
                    THEN [sockets EXCEPT ![ws].state = "Closing"]
                    ELSE sockets
    /\ last' = [panicked |-> FALSE,
                data |-> NoData, msg |-> NoMessage, op |-> "close", h |-> ws,
                cb |-> "none", stale |-> FALSE,
                ok |-> valid, scheduled |-> FALSE, seen |-> NoSnapshot]
    /\ UNCHANGED <<builder, reconnect, cb_store, ws, timers, nTimers, nb,
                   dropped>>

\* A close that sets the flag and forgets to close the socket.
close_FlagOnly(valid) ==
    /\ ~dropped
    /\ close_requests < MaxCloses
    /\ is_closing' = TRUE
    /\ last' = [panicked |-> FALSE, data |-> NoData, msg |-> NoMessage,
                op |-> "close", h |-> ws, cb |-> "none", stale |-> FALSE,
                ok |-> valid, scheduled |-> FALSE, seen |-> NoSnapshot]
    /\ UNCHANGED <<builder, reconnect, cb_store, ws, sockets, timers,
                   nTimers, nb, dropped, close_requests>>

\* WebSocket::close -> WebSocketCore::close.  `valid` is the platform's
\* verdict on the code and the reason: an invalid pair makes close_with_code
\* return Err and leaves the socket as it was.
close(valid) ==
    /\ ~dropped
    /\ close_requests < MaxCloses
    /\ is_closing' = TRUE
    /\ close_requests' = close_requests + 1
    /\ sockets' = IF valid /\ sockets[ws].state \in {"Connecting", "Open"}
                    THEN [sockets EXCEPT ![ws].state = "Closing"]
                    ELSE sockets
    /\ last' = [panicked |-> FALSE, data |-> NoData, msg |-> NoMessage,
                op |-> "close", h |-> ws, cb |-> "none", stale |-> FALSE,
                ok |-> valid, scheduled |-> FALSE, seen |-> NoSnapshot]
    /\ UNCHANGED <<builder, reconnect, cb_store, ws, timers, nTimers, nb,
                   dropped>>

\* The closures that capture the Rc of the builder: those of build_onopen
\* and build_onclose.  The closures of build_onmessage and build_onerror
\* capture the user's callback only.
BuilderRetained(b) == build_onopen(b) \/ build_onclose(b)

\* The store of a builder that was freed: its closures are destroyed.
NoStore == [gen |-> 0, slots |-> <<>>]

\* The WebSocketCore is dropped and with it its Rc of the builder.  The store
\* is a field of the builder: it lives on only if a stored closure holds
\* another Rc of the builder.
StoreAfterDrop(store, b) == IF BuilderRetained(b) THEN store ELSE NoStore

\* Drop for WebSocket: close(None, None), the result discarded, then the
\* fields are dropped.  `valid` is the platform's verdict on the default
\* code 1005.
drop(valid) ==
    /\ ~dropped
    /\ close_requests < MaxCloses
    /\ dropped' = TRUE
    /\ is_closing' = TRUE
    /\ close_requests' = close_requests + 1
    /\ sockets' = IF valid /\ sockets[ws].state \in {"Connecting", "Open"}
                    THEN [sockets EXCEPT ![ws].state = "Closing"]
                    ELSE sockets
    /\ last' = [panicked |-> FALSE, data |-> NoData, msg |-> NoMessage,
                op |-> "drop", h |-> ws, cb |-> "none", stale |-> FALSE,
                ok |-> valid, scheduled |-> FALSE, seen |-> NoSnapshot]
    /\ cb_store' = StoreAfterDrop(cb_store, builder)
    /\ UNCHANGED <<builder, reconnect, ws, timers, nTimers, nb>>

\* A send that starts a reconnect when the socket refuses the data.
send_Reconnects(msg) ==
    /\ ~dropped
    /\ msg \in Messages
    /\ IF ~transport_send(sockets[ws].state) /\ builder.reconnect
         THEN ScheduleRetry(timers, 0, TRUE)
         ELSE NoRetry(timers)
    /\ last' = [panicked |-> FALSE, data |-> NoData, msg |-> NoMessage,
                op |-> "send", h |-> ws, cb |-> "none", stale |-> FALSE,
                ok |-> transport_send(sockets[ws].state),
                scheduled |-> FALSE, seen |-> NoSnapshot]
    /\ UNCHANGED <<builder, is_closing, cb_store, ws, sockets, dropped,
                   close_requests>>

\* WebSocket::send: send_with_str or send_with_u8_array on the socket the
\* cell holds now, its result returned as it is.
send(msg) ==
    /\ ~dropped
    /\ msg \in Messages
    /\ last' = [panicked |-> FALSE, data |-> NoData, msg |-> NoMessage,
                op |-> "send", h |-> ws, cb |-> "none", stale |-> FALSE,
                ok |-> transport_send(sockets[ws].state),
                scheduled |-> FALSE, seen |-> NoSnapshot]
    /\ UNCHANGED <<builder, is_closing, reconnect, cb_store, ws, sockets,
                   timers, nTimers, nb, dropped, close_requests>>

\* The timeout t fires: the closure of build_retry_closure.  `built` is
\* whether build_new_websocket would return Ok.
RetryFire(t, built, rnd, window) ==
    LET run     == reconnect.retry_closure = t.id
                   /\ ~RetrySuppressed(is_closing)
        n       == Len(sockets) + 1
        pending == timers \ {t}
    IN  /\ t \in timers
        /\ IF run /\ built
             THEN /\ Len(sockets) < MaxSockets
                  /\ sockets' = InstallOn(
                         Append(sockets,
                                build_new_websocket(builder.url,
                                                    builder.protocols)),
                         n, builder)
                  /\ ws' = n
                  /\ cb_store' = StoreFor(n, builder)
             ELSE UNCHANGED <<sockets, ws, cb_store>>
        /\ IF run /\ RetryReschedules(built)
             THEN ScheduleRetry(pending, rnd, window)
             ELSE NoRetry(pending)
        /\ last' = [panicked |-> run /\ RetryReschedules(built) /\ ~window,
                    data |-> NoData, msg |-> NoMessage,
                    op |-> "retry", h |-> IF run /\ built THEN n ELSE ws,
                    cb |-> "none",
                    stale |-> reconnect.retry_closure # t.id,
                    ok |-> run /\ built,
                    scheduled |-> run /\ RetryReschedules(built) /\ window,
                    seen |-> NoSnapshot]
        /\ UNCHANGED <<builder, is_closing, dropped, close_requests>>

Next ==
    \/ \E h \in 1..MaxSockets : NotifyOpen(h)
    \/ \E h \in 1..MaxSockets, data \in EventData : NotifyMessage(h, data)
    \/ \E h \in 1..MaxSockets, rnd \in 0..RndDen : NotifyError(h, rnd)
    \/ \E h \in 1..MaxSockets, rnd \in 0..RndDen, window \in BOOLEAN :
            NotifyClosed(h, rnd, window)
    \/ \E valid \in BOOLEAN : close(valid)
    \/ \E valid \in BOOLEAN : drop(valid)
    \/ \E msg \in Messages : send(msg)
    \/ \E t \in timers, built \in BOOLEAN, rnd \in 0..RndDen,
            window \in BOOLEAN :
            RetryFire(t, built, rnd, window)

Spec == Init /\ [][Next]_vars

EndpointSpec == EndpointInit /\ [][Next]_vars

TypeOK ==
    /\ builder \in Builders
    /\ is_closing \in BOOLEAN
    /\ ws \in DOMAIN sockets
    /\ Len(sockets) \in 1..MaxSockets
    /\ \A h \in DOMAIN sockets : sockets[h].state \in ReadyStates
    /\ nTimers \in 0..MaxTimers
    /\ nb \in 0..(MaxTimers + MaxPre)
    /\ last.panicked \in BOOLEAN
    /\ dropped \in BOOLEAN
    /\ close_requests \in 0..MaxCloses
    /\ last.data \in EventData \cup {NoData}
    /\ last.msg.tag \in Messages \cup {"None"}
    /\ ready_state \in ReadyStates

----------------------------------------------------------------------------
(* Fairness: a socket on which the platform accepted a close delivers its  *)
(* `close` event, and a pending timeout fires.                             *)

ClosedAfterRequest ==
    \E h \in 1..MaxSockets, rnd \in 0..RndDen, window \in BOOLEAN :
        /\ h \in DOMAIN sockets
        /\ sockets[h].state = "Closing"
        /\ NotifyClosed(h, rnd, window)

TimerFires ==
    \E t \in timers, built \in BOOLEAN, rnd \in 0..RndDen,
       window \in BOOLEAN :
        RetryFire(t, built, rnd, window)

FairSpec == Spec /\ WF_vars(ClosedAfterRequest) /\ WF_vars(TimerFires)

Notifications == {"open", "message", "error", "closed"}

----------------------------------------------------------------------------
(* Properties. *)

\* C1: once close() has been called, in whatever state, no step constructs
\* a socket or replaces the current one: a retry that fires afterwards
\* returns without opening a connection.
C1_NoHandleAfterClose ==
    [][is_closing => (Len(sockets') = Len(sockets) /\ ws' = ws)]_vars

\* A retry fired after close() and returned without building a socket.
C1_Witness ==
    is_closing /\ last.op = "retry" /\ ~last.ok /\ ~last.scheduled

\* C2: at most one scheduled retry timeout is outstanding at any moment.
C2_AtMostOneTimer == Cardinality(timers) <= 1

\* A failed construction rescheduled, and still one timeout is pending.
C2_Witness ==
    last.op = "retry" /\ last.scheduled /\ nTimers >= 2
    /\ Cardinality(timers) = 1

\* C3: one socket is current at a time; every socket that was replaced is
\* closed, and every notification is delivered on the current socket, to
\* adapters that are still stored unless the store was freed by a drop.
C3_NoStaleDelivery ==
    /\ ws \in DOMAIN sockets
    /\ \A h \in DOMAIN sockets : h # ws => sockets[h].state = "Closed"
    /\ last.op \in Notifications =>
          (last.h = ws /\ (last.stale => cb_store = NoStore))

\* A notification delivered after the first socket had been replaced.
C3_Witness ==
    Len(sockets) >= 2 /\ last.op = "message" /\ last.cb = "message"

\* C4: the timeout handed to the timer is the delay the backoff computed,
\* unchanged in value and unit, and lies within the randomized interval.
C4_TimerDelayIsBackoff ==
    \A t \in timers : t.timeout = t.delay

\* C5: a retry that fires unsuppressed and builds a socket makes that socket
\* the current one, connecting, with the adapters bound to it and stored;
\* the open notification of the current socket makes the status Open.
C5_RetryRebinds ==
    [][ /\ (last'.op = "retry" /\ last'.ok) =>
              /\ ~is_closing
              /\ Len(sockets') = Len(sockets) + 1
              /\ ws' = Len(sockets')
              /\ ws' # ws
              /\ ready_state' = "Connecting"
              /\ sockets'[ws'].on = Adapters(builder)
              /\ cb_store' = StoreFor(ws', builder)
        /\ (last'.op = "open" /\ last'.h = ws') => ready_state' = "Open"
      ]_vars

\* The socket built by a retry has opened.
C5_Witness ==
    last.op = "open" /\ last.h = ws /\ ws >= 2 /\ ready_state = "Open"

\* C6 as stated: after any close() call the status eventually is Closed and
\* stays Closed.
C6_CloseEndsClosed ==
    (last.op = "close") ~> [](ready_state = "Closed")

\* C6: after a close() call that the platform accepted, the status
\* eventually is Closed and stays Closed.
C6_AcceptedCloseEndsClosed ==
    (last.op = "close" /\ last.ok) ~> [](ready_state = "Closed")

\* An accepted close has been followed by the close notification.
C6_Witness ==
    is_closing /\ last.op = "closed" /\ last.h = ws
    /\ ready_state = "Closed" /\ ~last.scheduled

\* C7: after an open notification on a client with reconnect configured the
\* controller is not reconnecting and the backoff is at its initial interval.
C7_OpenResetsBackoff ==
    (last.op = "open" /\ builder.reconnect) =>
        /\ ~is_reconnecting(reconnect)
        /\ reconnect.current_interval = reconnect.initial_interval
        /\ reconnect.current_interval = InitialInterval

\* An open notification after two backoffs that moved the interval.
C7_Witness ==
    /\ last.op = "open" /\ builder.reconnect
    /\ nTimers >= 2 /\ reconnect.multiplier # 10

\* C8: the controller is reconnecting exactly from the first next_backoff()
\* until the next reset().
C8_ActiveAfterNextBackoff ==
    builder.reconnect => (is_reconnecting(reconnect) <=> nb > 0)

\* C9: every next_backoff() uses an interval that is at most max_interval,
\* and leaves an interval that is no smaller and at most max_interval.
C9_IntervalsNonDecreasingToMax ==
    [][nb' = nb + 1 =>
          /\ reconnect.current_interval <= reconnect.max_interval
          /\ reconnect'.current_interval >= reconnect.current_interval
          /\ reconnect'.current_interval <= reconnect.max_interval]_vars

\* C10: without reconnect no timeout is ever scheduled, no second socket is
\* ever built, and a Closed status stays Closed.
C10_NoReconnectIsTerminal ==
    /\ [](~builder.reconnect =>
            (timers = {} /\ nTimers = 0 /\ Len(sockets) = 1 /\ ws = 1))
    /\ [][(~builder.reconnect /\ ready_state = "Closed")
            => ready_state' = "Closed"]_vars

\* A client without reconnect received its close notification.
C10_Witness ==
    /\ ~builder.reconnect /\ ~is_closing
    /\ last.op = "closed" /\ last.cb = "close" /\ ready_state = "Closed"

\* C11: a close() call made after an earlier one returns success, issues no
\* close request to the socket and changes no socket, whatever its arguments.
C11_SecondCloseIsNoOp ==
    [][(is_closing /\ last'.op = "close") =>
          /\ last'.ok
          /\ close_requests' = close_requests
          /\ sockets' = sockets]_vars

\* C12: send returns an error exactly when the status of the current socket
\* is not Open (Connecting, Closing or Closed).
C12_SendFailsUnlessOpen ==
    last.op = "send" => (last.ok <=> ready_state = "Open")

\* C13: send, failing or not, schedules no retry, leaves the backoff and the
\* is_closing flag as they were and does not replace or change a socket.
C13_SendHasNoReconnectEffect ==
    [][last'.op = "send" =>
          UNCHANGED <<timers, nTimers, nb, reconnect, is_closing, ws,
                      sockets, cb_store>>]_vars

\* A send failed on a connecting socket of a reconnecting client.
C13_Witness ==
    /\ last.op = "send" /\ ~last.ok
    /\ builder.reconnect /\ ~is_closing /\ ready_state = "Connecting"

\* C14: once the client is dropped the flag is set and a close has been
\* requested on the current socket, which is closing or closed.
C14_DropClosesHandle ==
    dropped => (is_closing /\ ready_state \in {"Closing", "Closed"})

C16_ClosedAlwaysRetries ==
    /\ []((builder.reconnect /\ ~is_closing /\ ready_state = "Closed")
            => Cardinality(timers) >= 1)
    /\ [][(last'.op = "retry" /\ ~is_closing)
            => (last'.ok \/ last'.scheduled)]_vars

\* A zero cap, a randomization factor of 1 or more, or a multiplier below 1.
Degenerate(cfg) ==
    \/ cfg.max_interval = 0
    \/ cfg.randomization_factor >= 100
    \/ cfg.multiplier < 10

\* C17: for a degenerate configuration every stored interval and every
\* computed delay is non-negative and bounded by the cap (the delay by the
\* cap widened by the randomization).
C17_DelaysAndIntervalsClamped ==
    Degenerate(reconnect) =>
        /\ nb > 0 => /\ reconnect.current_interval >= 0
                     /\ reconnect.current_interval <= reconnect.max_interval
        /\ \A t \in timers :
              /\ t.delay >= 0
              /\ t.delay * 100 <= reconnect.max_interval
                                    * (100 + reconnect.randomization_factor)

\* C18: when a close notification starts a reconnect, the user's close
\* handler runs once, after the backoff was advanced and the retry
\* scheduled: it observes the pending retry.
C18_CloseHandlerSeesRetry ==
    (last.op = "closed" /\ last.scheduled /\ last.cb = "close") =>
        /\ last.seen.pending = 1
        /\ last.seen = Snapshot(timers, reconnect)

\* The close handler ran on a close notification that scheduled a retry.
C18_Witness ==
    /\ last.op = "closed" /\ last.scheduled /\ last.cb = "close"
    /\ reconnect.current_interval # InitialInterval

\* C19: whenever the user's open handler runs on a reconnecting client, the
\* controller is already inactive with its interval at the initial value.
C19_OpenHandlerSeesReset ==
    (last.op = "open" /\ last.cb = "open" /\ builder.reconnect) =>
        /\ ~last.seen.active
        /\ last.seen.interval = InitialInterval

\* The open handler ran after a backoff that had moved the interval.
C19_Witness ==
    /\ last.op = "open" /\ last.cb = "open" /\ builder.reconnect
    /\ ws >= 2 /\ reconnect.multiplier # 10

\* C20: an error notification schedules no retry, leaves the backoff and
\* the sockets as they were; the close notification after it schedules at
\* most one retry.
C20_ErrorHasNoReconnectEffect ==
    [][ /\ last'.op = "error" =>
              UNCHANGED <<timers, nTimers, nb, reconnect, is_closing, ws,
                          sockets, cb_store>>
        /\ (last.op = "error" /\ last'.op = "closed") =>
              (nTimers' <= nTimers + 1 /\ Cardinality(timers') <= 1)
      ]_vars

\* The error handler ran on a live socket of a reconnecting client.
C20_Witness ==
    /\ last.op = "error" /\ last.cb = "error"
    /\ builder.reconnect /\ ~is_closing /\ timers = {}

\* C21 as stated: the current socket has a handler for each of the four
\* events, whichever callbacks the user supplied.
C21_FourAdaptersAlways == \A k \in Kinds : sockets[ws].on[k]

\* C21: the current socket has a message or an error handler exactly when
\* the user supplied that callback, an open or a close handler exactly when
\* the user supplied it or reconnecting is configured; the store holds the
\* four slots of the current socket and of no earlier one, until a drop frees
\* the store of a builder that no closure retains.
C21_AdaptersFollowBuilder ==
    /\ sockets[ws].on.message = builder.onmessage
    /\ sockets[ws].on.open = (builder.onopen \/ builder.reconnect)
    /\ sockets[ws].on.error = builder.onerror
    /\ sockets[ws].on.close = (builder.onclose \/ builder.reconnect)
    /\ cb_store # NoStore =>
          /\ cb_store.gen = ws
          /\ cb_store.slots = <<sockets[ws].on.message, sockets[ws].on.open,
                                sockets[ws].on.error, sockets[ws].on.close>>
    /\ cb_store = NoStore => (dropped /\ ~BuilderRetained(builder))

\* A retry installed the handlers on a new socket of a client that has no
\* message callback.
C21_Witness ==
    /\ ws >= 2 /\ last.op = "retry" /\ last.ok /\ last.h = ws
    /\ ~builder.onmessage /\ builder.onerror
    /\ ~sockets[ws].on.message /\ sockets[ws].on.close

\* C22: a message delivered on the current socket of a client with a
\* message callback calls that callback, in the same step, with the payload
\* of the event: a string as Text, a buffer as Binary with the same bytes.
\* Without a message callback nothing is called.  The case of a dropped
\* client whose builder no closure retains is that of C31.
C22_MessageReachesCallback ==
    (last.op = "message" /\ last.h = ws
     /\ (dropped => BuilderRetained(builder))) =>
        /\ ~last.stale
        /\ builder.onmessage =>
              /\ last.cb = "message"
              /\ last.msg.val = last.data.val
              /\ last.msg.tag =
                    (IF last.data.js = "JsString" THEN "Text" ELSE "Binary")
        /\ ~builder.onmessage => (last.cb = "none" /\ last.msg = NoMessage)

\* A text message reached the callback on a socket built by a retry.
C22_Witness ==
    /\ last.op = "message" /\ last.h = ws /\ ws >= 2
    /\ last.cb = "message" /\ last.data.js = "JsString"
    /\ last.msg.tag = "Text"

\* C23: every socket a retry built was asked for the url and the protocols,
\* in their order, that the builder was given, as the first socket was; the
\* builder never changes.
C23_SameEndpoint ==
    /\ \A h \in DOMAIN sockets :
          /\ sockets[h].url = builder.url
          /\ sockets[h].protocols = builder.protocols
          /\ sockets[h].url = sockets[1].url
          /\ sockets[h].protocols = sockets[1].protocols
    /\ builder.protocols.some => builder.protocols.list = <<"p1", "p2">>

\* A retry built a socket for a client that was given protocols.
C23_Witness ==
    /\ ws >= 2 /\ last.op = "retry" /\ last.ok
    /\ builder.protocols.some /\ builder.url = "ws://b"
    /\ sockets[ws].protocols.list = <<"p1", "p2">>

\* C24: is_closing, once set, stays set, and from then on a close
\* notification or a firing timeout schedules nothing and leaves the backoff
\* as it was.
C24_CloseFlagIsFinal ==
    [][ is_closing =>
          /\ is_closing'
          /\ last'.op \in {"closed", "retry"} =>
                /\ ~last'.scheduled
                /\ reconnect' = reconnect
                /\ nTimers' = nTimers /\ nb' = nb
                /\ timers' \subseteq timers
      ]_vars

\* After close() the socket of a reconnecting client, which had already
\* retried, delivered `close` and nothing was scheduled.
C24_Witness ==
    /\ is_closing /\ builder.reconnect /\ nTimers >= 1
    /\ last.op = "closed" /\ last.cb = "close" /\ timers = {}

\* C25: reset applied twice gives what reset applied once gives, the flag
\* false and the interval at its initial value; on a controller on which
\* next_backoff was not called since its construction or its last reset,
\* reset changes nothing.
C25_ResetIdempotent ==
    /\ reset(reset(reconnect)) = reset(reconnect)
    /\ ~is_reconnecting(reset(reconnect))
    /\ reset(reconnect).current_interval = reconnect.initial_interval
    /\ nb = 0 => reset(reconnect) = reconnect

\* The open adapter reset a backoff that had advanced; a second reset
\* changes nothing.
C25_Witness ==
    /\ last.op = "open" /\ last.cb = "open" /\ builder.reconnect
    /\ nTimers >= 2 /\ reconnect.multiplier = 20
    /\ reset(reconnect) = reconnect

\* C26: the status is the state of the socket the cell holds now, the newest
\* one; right after a retry replaced the socket it is Connecting.
C26_StatusIsLive ==
    /\ ws = Len(sockets)
    /\ ready_state = sockets[Len(sockets)].state
    /\ (last.op = "retry" /\ last.ok) => ready_state = "Connecting"

\* A retry has just replaced a closed socket.
C26_Witness ==
    /\ last.op = "retry" /\ last.ok /\ ws = 2
    /\ sockets[1].state = "Closed" /\ ready_state = "Connecting"

\* C27: a close() the socket rejects still sets is_closing and leaves every
\* socket as it was; when that socket closes later, no retry is scheduled.
C27_RejectedCloseSetsFlag ==
    [][ /\ (last'.op = "close" /\ ~last'.ok) =>
              (is_closing' /\ sockets' = sockets /\ ws' = ws)
        /\ (last.op = "close" /\ ~last.ok /\ last'.op = "closed") =>
              (~last'.scheduled /\ timers' = timers)
      ]_vars

\* close() was rejected on an open socket of a reconnecting client.
C27_Witness ==
    /\ last.op = "close" /\ ~last.ok /\ is_closing
    /\ ready_state = "Open" /\ builder.reconnect

\* C28: a step other than an open notification leaves the backoff interval
\* alone unless it attempts to schedule a retry (the attempt counts even if
\* scheduling panics), and then it applies the increment:
\* above its initial value when the multiplier is above 1 and the maximum
\* not reached, never back to the initial value once it left it.
C28_OnlyOpenResets ==
    [][ last'.op # "open" =>
          /\ ~(last'.scheduled \/ last'.panicked) =>
                reconnect'.current_interval = reconnect.current_interval
          /\ (last'.scheduled \/ last'.panicked) =>
                /\ nb' = nb + 1
                /\ reconnect'.current_interval =
                      IncrementCurrentInterval(reconnect)
                /\ (reconnect.multiplier > 10
                    /\ reconnect.current_interval < reconnect.max_interval)
                      => reconnect'.current_interval
                            > reconnect.current_interval
          /\ reconnect.current_interval # reconnect.initial_interval =>
                reconnect'.current_interval # reconnect'.initial_interval
      ]_vars

\* The second socket closed before it opened and the retry was scheduled
\* from an interval that had already advanced.
C28_Witness ==
    /\ last.op = "closed" /\ last.scheduled /\ ws >= 2
    /\ nb >= 2 /\ reconnect.multiplier = 15
    /\ reconnect.current_interval > 750

\* C29: the socket the cell holds is replaced only when it is Closed, by a
\* new socket that is Connecting.
C29_OnlyClosedReplaced ==
    [][ ws' # ws =>
          /\ sockets[ws].state = "Closed"
          /\ ws' = Len(sockets) + 1
          /\ sockets'[ws'].state = "Connecting"
          /\ \A h \in DOMAIN sockets : sockets'[h] = sockets[h]
      ]_vars

\* A retry replaced a socket that had closed.
C29_Witness ==
    /\ ws >= 2 /\ last.op = "retry" /\ last.ok /\ last.h = ws
    /\ sockets[ws - 1].state = "Closed"
    /\ sockets[ws].state = "Connecting"

\* C30: every pending timeout runs the closure that retry_closure holds, and
\* retry_closure holds the closure scheduled last.
C30_SlotHoldsPendingClosure ==
    /\ \A t \in timers : t.id = reconnect.retry_closure
    /\ reconnect.retry_closure = nTimers

\* A second retry is pending and its closure is the stored one.
C30_Witness ==
    /\ Cardinality(timers) = 1 /\ nTimers >= 2
    /\ reconnect.retry_closure = nTimers
    /\ \E t \in timers : t.id = nTimers

\* The user's callback for a notification, if one was supplied.
UserCallback(b, op) ==
    CASE op = "open"    -> b.onopen
      [] op = "message" -> b.onmessage
      [] op = "error"   -> b.onerror
      [] op = "closed"  -> b.onclose

\* C31: after the drop the adapters of the current socket are still stored;
\* a notification it delivers calls the user's callback for it, if there is
\* one, and schedules nothing; no retry builds a socket or schedules.
C31_AdaptersSurviveDrop ==
    dropped =>
        /\ \A k \in Kinds : sockets[ws].on[k] => AdapterLive(ws, k)
        /\ last.op \in Notifications =>
              /\ last.h = ws
              /\ ~last.stale
              /\ UserCallback(builder, last.op) => last.cb # "none"
              /\ ~last.scheduled
        /\ last.op = "retry" => (~last.ok /\ ~last.scheduled)

====
